---------------------------- MODULE Spec2Model ----------------------------
(***************************************************************************)
(* Model of the LODES reshaping pipelines of phlcensus:                    *)
(*   - LongformLODES (economic/lodes_long.py and the earlier revision      *)
(*     econ/lodes_long.py): download and get;                              *)
(*   - SummaryLODES (economic/lodes/summary.py): download and get.         *)
(*                                                                         *)
(* A table (a pandas DataFrame) is a record                                *)
(*     [cols |-> sequence of column names,                                 *)
(*      index |-> sequence of row labels,                                  *)
(*      rows |-> sequence of rows, each a function column -> value].       *)
(* A string that the code slices or orders (a geocode, a tract id) is a    *)
(* sequence of character codes: a digit is its value 0..9, a letter its    *)
(* ASCII code, so that the order of the codes is the order of the          *)
(* characters.  Column names and opaque values are TLA+ strings.           *)
(***************************************************************************)
EXTENDS Integers, Sequences, FiniteSets, TLC

VARIABLES
    call,      \* the arguments of the call being executed
    pc,        \* the position of the call
    events,    \* the reads and collaborator calls made so far, in order
    src,       \* the tables loaded from the sources (locals of download)
    work,      \* the table being reshaped (the local `out` / `data`)
    ret,       \* the table returned to the caller, or NoTable
    err        \* the exception raised, or "none"

vars == <<call, pc, events, src, work, ret, err>>

(***************************************************************************)
(* Bounds of the model.                                                    *)
(***************************************************************************)
MaxRows == 2       \* records in a source file
MaxODRows == 4     \* records in the main and auxiliary OD files together
MaxCount == 1      \* the largest count in a cell of a source file

(***************************************************************************)
(* Sequences and strings.                                                  *)
(***************************************************************************)
Range(s) == {s[i] : i \in DOMAIN s}

Min(a, b) == IF a <= b THEN a ELSE b

\* a < b in the lexicographic order of strings
LexLess(a, b) ==
    \E k \in 1..Len(b) :
        /\ k <= Len(a) + 1
        /\ \A j \in 1..(k - 1) : a[j] = b[j]
        /\ (k = Len(a) + 1 \/ a[k] < b[k])

\* the elements of the finite set S in ascending order; lt is the order, as
\* the set of the pairs <<x, y>> with x before y
SortedSeq(S, lt) ==
    [i \in 1..Cardinality(S) |->
        CHOOSE x \in S : Cardinality({y \in S : <<y, x>> \in lt}) = i - 1]

\* the order of strings on the set S
LexOrder(S) == {p \in S \X S : LexLess(p[1], p[2])}

\* the order of numbers on the set S
NatOrder(S) == {p \in S \X S : p[1] < p[2]}

\* str.slice(0, n)
Slice(s, n) == SubSeq(s, 1, Min(n, Len(s)))

\* what astype(str) gives for a column that read_csv parsed as integers:
\* the decimal digits without leading zeros
RECURSIVE AsTypeStr(_)
AsTypeStr(digits) ==
    IF Len(digits) > 1 /\ digits[1] = 0 THEN AsTypeStr(Tail(digits)) ELSE digits

\* the string "nan" that astype(str) gives for a missing value
NanStr == <<110, 97, 110>>

\* a missing number (NaN); counts are never negative
NaN == 0 - 1

IsNaN(v) == v < 0

NoTable == [cols |-> <<>>, index |-> <<>>, rows |-> <<>>, none |-> TRUE]

DenseIndex(n) == [i \in 1..n |-> i - 1]

Table(cols, rows) == [cols |-> cols, index |-> DenseIndex(Len(rows)), rows |-> rows]

EmptySrc == [data |-> NoTable, tracts |-> NoTable, xwalk |-> NoTable, cols |-> <<>>]


(***************************************************************************)
(* The pandas operations the pipelines use.                                *)
(***************************************************************************)
\* df[cols]: the columns `cols`, in that order; rows and index are kept
Select(t, cols) ==
    [cols |-> cols,
     index |-> t.index,
     rows |-> [i \in DOMAIN t.rows |-> [c \in Range(cols) |-> t.rows[i][c]]]]

\* df.rename(columns=...): names is the new name of each column of t (a
\* name outside the mapping of the code is its own new name)
RenameCols(t, names) ==
    [cols |-> [k \in DOMAIN t.cols |-> names[t.cols[k]]],
     index |-> t.index,
     rows |-> [i \in DOMAIN t.rows |->
                 [n \in {names[c] : c \in Range(t.cols)} |->
                     t.rows[i][CHOOSE c \in Range(t.cols) : names[c] = n]]]]

\* the order of the values of column c: booleans False < True, strings
\* lexicographically
CellLess(c, a, b) == IF c = "is_resident" THEN (~a /\ b) ELSE LexLess(a, b)

\* the order of group keys: lexicographic over the key columns
KeyLess(keys, a, b) ==
    \E k \in DOMAIN keys :
        /\ \A j \in 1..(k - 1) : a[j] = b[j]
        /\ CellLess(keys[k], a[k], b[k])

KeyOf(row, keys) == [k \in DOMAIN keys |-> row[keys[k]]]

\* Series.sum() of column c over the rows: missing values are skipped
RECURSIVE SumCol(_, _)
SumCol(rows, c) ==
    IF rows = <<>> THEN 0
    ELSE (IF IsNaN(Head(rows)[c]) THEN 0 ELSE Head(rows)[c]) + SumCol(Tail(rows), c)

\* df[keys + vals].groupby(keys).sum().reset_index(): one row per distinct
\* key, the keys in ascending order, each value column summed
GroupBySum(t, keys, vals) ==
    LET K == {KeyOf(t.rows[i], keys) : i \in DOMAIN t.rows}
        ks == SortedSeq(K, {p \in K \X K : KeyLess(keys, p[1], p[2])})
        grp(k) == SelectSeq(t.rows, LAMBDA r : KeyOf(r, keys) = k)
        pos(c) == CHOOSE j \in DOMAIN keys : keys[j] = c
    IN  Table(keys \o vals,
              [g \in DOMAIN ks |->
                 [c \in Range(keys) \cup Range(vals) |->
                     IF c \in Range(keys) THEN ks[g][pos(c)]
                     ELSE SumCol(grp(ks[g]), c)]])

\* the columns that hold text or geometry, not numbers
ObjectCols ==
    {"geo_id", "geo_name", "geometry", "geo_id_tract",
     "geo_id_nta", "geo_name_nta", "geo_id_puma", "geo_name_puma",
     "w_geocode", "h_geocode", "tabblk2010", "trct"}

\* the missing value of column c: NaN, which astype(str) turns into "nan"
Missing(c) == IF c \in ObjectCols THEN NanStr ELSE NaN

\* the columns of left.merge(right, left_on=lkey, right_on=rkey): the left
\* columns, then the right columns the left does not have (the shared key)
MergeCols(l, r) == l.cols \o SelectSeq(r.cols, LAMBDA c : c \notin Range(l.cols))

PairLess(p, q) == p[1] < q[1] \/ (p[1] = q[1] /\ p[2] < q[2])

\* left.merge(right, left_on=lkey, right_on=rkey, how=how), how "inner" or
\* "left": the rows in the order of the left table, the matches of one left
\* row in the order of the right table; how="left" keeps an unmatched left
\* row with the right columns missing.  The result has a fresh index.
Merge(l, r, lkey, rkey, how) ==
    LET match(i) == {j \in DOMAIN r.rows : r.rows[j][rkey] = l.rows[i][lkey]}
        pairs == {<<i, j>> : i \in DOMAIN l.rows, j \in DOMAIN r.rows}
        hit == {p \in pairs : p[2] \in match(p[1])}
        lone == IF how = "left"
                THEN {<<i, 0>> : i \in {k \in DOMAIN l.rows : match(k) = {}}}
                ELSE {}
        ps == SortedSeq(hit \cup lone,
                        {p \in (hit \cup lone) \X (hit \cup lone) : PairLess(p[1], p[2])})
        cols == MergeCols(l, r)
    IN  Table(cols,
              [n \in DOMAIN ps |->
                 [c \in Range(cols) |->
                     IF c \in Range(l.cols) THEN l.rows[ps[n][1]][c]
                     ELSE IF ps[n][2] = 0 THEN Missing(c)
                     ELSE r.rows[ps[n][2]][c]]])

\* df.sort_values(col): the rows in ascending order of col, each keeping
\* its index label; rows with equal values keep their relative order
SortValues(t, col) ==
    LET rank(i) ==
            Cardinality({j \in DOMAIN t.rows : LexLess(t.rows[j][col], t.rows[i][col])})
            + Cardinality({j \in 1..(i - 1) : t.rows[j][col] = t.rows[i][col]})
        at(n) == CHOOSE i \in DOMAIN t.rows : rank(i) = n - 1
    IN  [cols |-> t.cols,
         index |-> [n \in DOMAIN t.rows |-> t.index[at(n)]],
         rows |-> [n \in DOMAIN t.rows |-> t.rows[at(n)]]]

\* df.reset_index(drop=True)
ResetIndex(t) == [cols |-> t.cols, index |-> DenseIndex(Len(t.rows)), rows |-> t.rows]


(***************************************************************************)
(* The sources: tracts, blocks, the tract reference of each year.          *)
(***************************************************************************)
\* 11-character tract ids of the state (FIPS 42) and 15-character block ids
T1 == <<4, 2, 1, 0, 1, 0, 0, 0, 1, 0, 0>>
T2 == <<4, 2, 1, 0, 1, 0, 0, 0, 2, 0, 0>>
B11 == T1 \o <<1, 0, 0, 1>>
B12 == T1 \o <<2, 0, 0, 3>>
B21 == T2 \o <<1, 0, 0, 0>>
\* a home block of another state (the auxiliary OD file)
BX == <<3, 4, 0, 0, 7, 6, 0, 0, 1, 0, 0, 1, 0, 1, 2>>

Blocks == {B11, B12, B21}

YEARS == 2002..2017

TractRow(id, name) == [geo_id |-> id, geo_name |-> name, geometry |-> "POLYGON"]

\* CensusTracts.get(year): the tract reference of a year.  The reference is
\* not the same in every year, and it is not sorted by geo_id.
CensusTracts(year) ==
    Table(<<"geo_id", "geo_name", "geometry">>,
          IF year < 2017 THEN <<TractRow(T1, <<84, 1>>)>>
          ELSE <<TractRow(T2, <<84, 2>>), TractRow(T1, <<84, 1>>)>>)

\* .assign(geo_id=lambda df: df.geo_id.astype(str))
TractsAsStr(t) ==
    [cols |-> t.cols,
     index |-> t.index,
     rows |-> [i \in DOMAIN t.rows |->
                 [t.rows[i] EXCEPT !.geo_id = AsTypeStr(t.rows[i].geo_id)]]]

\* the job types and their codes (allowed_job_types)
AllowedJobTypes ==
    [all |-> "JT00", primary |-> "JT01", private |-> "JT02", private_primary |-> "JT03"]

\* the subsets of S with at most n elements
SubsetsUpTo(S, n) == {X \in SUBSET S : Cardinality(X) <= n}


(***************************************************************************)
(* LongformLODES.                                                          *)
(***************************************************************************)
\* RAW_FIELDS of economic/lodes_long.py: the catalog, code -> name, in the
\* order of its declaration
RawFieldsEconomic ==
    <<
       <<"C000", "total_jobs">>, <<"CA01", "age_29_or_younger">>,
       <<"CA02", "age_30_to_54">>, <<"CA03", "age_55_or_older">>,
       <<"CE01", "wages_1250_or_less">>, <<"CE02", "wages_1251_to_3333">>,
       <<"CE03", "wages_3334_or_more">>, <<"CNS01", "agriculture_etc">>,
       <<"CNS02", "mining_etc">>, <<"CNS03", "utilities">>,
       <<"CNS04", "construction">>, <<"CNS05", "manufacturing">>,
       <<"CNS06", "wholesale_trade">>, <<"CNS07", "retail_trade">>,
       <<"CNS08", "transportation_warehousing">>, <<"CNS09", "information">>,
       <<"CNS10", "finance_insurance">>, <<"CNS11", "real_estate">>,
       <<"CNS12", "technical_services">>, <<"CNS13", "management">>,
       <<"CNS14", "waste_management">>, <<"CNS15", "educational_services">>,
       <<"CNS16", "healthcare_social_services">>, <<"CNS17", "arts_entertainment_recreation">>,
       <<"CNS18", "accommodation_food_services">>, <<"CNS19", "other_services">>,
       <<"CNS20", "public_administration">>, <<"CR01", "white_alone">>,
       <<"CR02", "black_alone">>, <<"CR03", "american_indian_and_alaska_native">>,
       <<"CR04", "asian_alone">>, <<"CR05", "native_hawaiian_and_pacific_islander">>,
       <<"CR07", "two_or_more_races">>, <<"CT01", "not_latino">>,
       <<"CT02", "latino_alone">>, <<"CD01", "less_than_high_school">>,
       <<"CD02", "high_school_graduate">>, <<"CD03", "some_college">>,
       <<"CD04", "bachelors_or_higher">>, <<"CS01", "total_jobs_male">>,
       <<"CS02", "total_jobs_female">>, <<"CFA01", "firm_age_0_to_1">>,
       <<"CFA02", "firm_age_2_to_3">>, <<"CFA03", "firm_age_4_to_5">>,
       <<"CFA04", "firm_age_6_to_10">>, <<"CFA05", "firm_age_11_or_more">>,
       <<"CFS01", "firm_size_0_to_19">>, <<"CFS02", "firm_size_20_to_49">>,
       <<"CFS03", "firm_size_50_to_249">>, <<"CFS04", "firm_size_250_to_499">>,
       <<"CFS05", "firm_size_500_or_more">>
    >>

\* RAW_FIELDS of econ/lodes_long.py: the same codes, one name spelled
\* differently (CNS17)
RawFieldsEcon ==
    [k \in DOMAIN RawFieldsEconomic |->
        IF RawFieldsEconomic[k][1] = "CNS17"
        THEN <<"CNS17", "ars_entertainment_recreation">>
        ELSE RawFieldsEconomic[k]]

RAW_FIELDS(module) == IF module = "econ" THEN RawFieldsEcon ELSE RawFieldsEconomic

\* col in cls.RAW_FIELDS
InCatalog(module, col) == \E k \in DOMAIN RAW_FIELDS(module) : RAW_FIELDS(module)[k][1] = col

\* rename(columns=cls.RAW_FIELDS) on one column name
FieldName(module, col) ==
    IF InCatalog(module, col)
    THEN RAW_FIELDS(module)[CHOOSE k \in DOMAIN RAW_FIELDS(module) :
                                RAW_FIELDS(module)[k][1] = col][2]
    ELSE col

\* the names the catalog gives, as a set
FieldNames(module) == {RAW_FIELDS(module)[k][2] : k \in DOMAIN RAW_FIELDS(module)}


\* The WAC / RAC file of a key: one record per block, in ascending block
\* order, with the geocode column of the key, the count columns of the
\* layout and, in one layout, a column the catalog does not know.  The
\* columns of a file need not come in the order of the catalog.
GeocodeCol(key) == IF key = "wac" THEN "w_geocode" ELSE "h_geocode"

Layouts == {<<"C000", "CA01">>, <<"CA01", "createdate", "C000">>}

LongFile(key, layout, B, v) ==
    LET bs == SortedSeq(B, LexOrder(B))
        cols == <<GeocodeCol(key)>> \o layout
    IN  Table(cols,
              [i \in DOMAIN bs |->
                 [c \in Range(cols) |->
                     IF c = GeocodeCol(key) THEN bs[i]
                     ELSE IF c = "createdate" THEN 20190826
                     ELSE v[bs[i]][c]]])

\* the counts of one record: the jobs of the block (C000) and, among them,
\* the jobs of workers aged 29 or younger (CA01)
RecordCounts == {c \in [{"C000", "CA01"} -> 0..MaxCount] : c["CA01"] <= c["C000"]}

LongFiles(key) ==
    UNION {{LongFile(key, layout, B, v) : v \in [B -> RecordCounts]} :
              layout \in Layouts, B \in SubsetsUpTo(Blocks, MaxRows)}

\* the default year of the earlier revision
DEFAULT_YEAR == 2017

\* pd.read_csv(filename).rename(columns={"h_geocode": "geo_id", "w_geocode":
\* "geo_id"}).assign(geo_id=lambda df: df.geo_id.astype(str).str.slice(0, 11))
GeoIdName(c) == IF c \in {"h_geocode", "w_geocode"} THEN "geo_id" ELSE c

LF_Data(file) ==
    LET t == RenameCols(file, [c \in Range(file.cols) |-> GeoIdName(c)])
    IN  [cols |-> t.cols,
         index |-> t.index,
         rows |-> [i \in DOMAIN t.rows |->
                     [t.rows[i] EXCEPT !.geo_id = Slice(AsTypeStr(t.rows[i].geo_id), 11)]]]

\* the year the tract reference is fetched for: CensusTracts.get(year=year)
\* in economic/lodes_long.py, CensusTracts.get() in econ/lodes_long.py
LF_TractYear(module, year) == IF module = "econ" THEN DEFAULT_YEAR ELSE year

\* cols = [col for col in data.columns if col in cls.RAW_FIELDS]
LF_Cols(module, data) == SelectSeq(data.cols, LAMBDA c : InCatalog(module, c))

\* N = data[["geo_id"] + cols].groupby(["geo_id"]).sum().reset_index()
LF_N(module, data) == GroupBySum(data, <<"geo_id">>, LF_Cols(module, data))

\* out = tracts.merge(N, on="geo_id").rename(columns=cls.RAW_FIELDS)
LF_Join(module, data, tracts) ==
    LET t == Merge(tracts, LF_N(module, data), "geo_id", "geo_id", "inner")
    IN  RenameCols(t, [c \in Range(t.cols) |-> FieldName(module, c)])

\* (out == 0).all() of column c: every row is zero (true of a table with
\* no rows); a text or geometry value is not equal to 0
AllZero(t, c) == \A i \in DOMAIN t.rows : c \notin ObjectCols /\ t.rows[i][c] = 0

\* ZeroPrune with the mask shifted by one column: a column is kept when the
\* column after it is not all zeros
ZeroPruneShifted(t) ==
    Select(t, SelectSeq(t.cols, LAMBDA c :
                LET k == CHOOSE i \in DOMAIN t.cols : t.cols[i] = c
                IN  k = Len(t.cols) \/ ~AllZero(t, t.cols[k + 1])))

\* out = out[out.columns[~(out == 0).all()]]
ZeroPrune(t) == Select(t, SelectSeq(t.cols, LAMBDA c : ~AllZero(t, c)))

\* SortReset without reset_index
SortNoReset(t) == SortValues(t, "geo_id")

\* out.sort_values("geo_id").reset_index(drop=True)
SortReset(t) == ResetIndex(SortValues(t, "geo_id"))

\* sort_values("geo_id") raises KeyError when the table has no such column
CanSort(t) == "geo_id" \in Range(t.cols)

\* LF_Validate without the check of the year
LF_ValidateNoYear(key, year, job_type) ==
    IF key \notin {"wac", "rac"} THEN "ValueError: key"
    ELSE IF job_type \notin DOMAIN AllowedJobTypes THEN "ValueError: job_type"
    ELSE "ok"

\* the validation of LongformLODES.download, in the order of the code:
\* the message of the first check that fails, or "ok"
LF_Validate(key, year, job_type) ==
    IF year \notin YEARS THEN "ValueError: year"
    ELSE IF key \notin {"wac", "rac"} THEN "ValueError: key"
    ELSE IF job_type \notin DOMAIN AllowedJobTypes THEN "ValueError: job_type"
    ELSE "ok"

\* the name of the source file
LF_Filename(key, year, job_type) == <<key, AllowedJobTypes[job_type], year>>

Event(op, arg) == [op |-> op, arg |-> arg]


\* LongformLODES.download as one function of its arguments and of the source
\* file it reads: the table returned, or the exception raised
LF_Download(module, key, year, job_type, file) ==
    LET v == LF_Validate(key, year, job_type)
        tracts == TractsAsStr(CensusTracts(LF_TractYear(module, year)))
        out == ZeroPrune(LF_Join(module, LF_Data(file), tracts))
    IN  IF v # "ok" THEN [err |-> v, table |-> NoTable]
        ELSE IF ~CanSort(out) THEN [err |-> "KeyError: geo_id", table |-> NoTable]
        ELSE [err |-> "none", table |-> SortReset(out)]

(***************************************************************************)
(* The collaborators of get: the crosswalks from tracts to coarser units   *)
(* and the aggregation of count data.                                      *)
(***************************************************************************)
N1 == <<78, 0, 1>>
N2 == <<78, 0, 2>>
P1 == <<0, 3, 2, 0, 1>>
P2 == <<0, 3, 2, 0, 2>>

Units(level) == IF level = "nta" THEN {N1, N2} ELSE {P1, P2}

\* the name of a unit ("U1", "U2"): a string the group-by orders
UnitName(u) == IF u \in {N1, P1} THEN <<85, 1>> ELSE <<85, 2>>

\* the sequences of distinct elements of S
Orderings(S) ==
    UNION {{s \in [1..Cardinality(X) -> X] : \A i, j \in DOMAIN s : s[i] = s[j] => i = j} :
              X \in SUBSET S}

\* crosswalk.tracts_to_ntas(year) / tracts_to_pumas(year): every tract of
\* the crosswalk belongs to one unit; the rows are in no particular order
Crosswalks(level) ==
    UNION {{Table(<<"geo_id_tract", "geo_id_" \o level, "geo_name_" \o level>>,
                  [i \in DOMAIN ts |->
                     ("geo_id_tract" :> ts[i])
                     @@ (("geo_id_" \o level) :> u[ts[i]])
                     @@ (("geo_name_" \o level) :> UnitName(u[ts[i]]))]) :
               u \in [Range(ts) -> Units(level)]} :
              ts \in Orderings({T1, T2}) \ {<<>>}}

\* analysis.aggregate_count_data(df, by, id_vars): one row per group, the
\* groups in ascending order of the key, every numeric column summed
AggregateCountData(t, by, id_vars) ==
    GroupBySum(t, <<by>> \o id_vars, SelectSeq(t.cols, LAMBDA c : c \notin ObjectCols))

\* data.drop(labels=["geometry"], axis=1)
DropGeometry(t) == Select(t, SelectSeq(t.cols, LAMBDA c : c # "geometry"))

\* LF_Merged with the two tables of the merge exchanged
LF_MergedFromData(xwalk, data) ==
    Merge(DropGeometry(data), xwalk, "geo_id", "geo_id_tract", "left")

\* lines 164-170 of economic/lodes_long.py: the crosswalk, left-joined with
\* the tract-level table
LF_Merged(xwalk, data) == Merge(xwalk, DropGeometry(data), "geo_id_tract", "geo_id", "left")

\* lines 172-180: aggregate, then rename the columns of the unit
LF_Aggregate(xwalk, data, level) ==
    LET Name(c) == IF c = "geo_id_" \o level THEN "geo_id"
                   ELSE IF c = "geo_name_" \o level THEN "geo_name"
                   ELSE c
        t == AggregateCountData(LF_Merged(xwalk, data),
                                "geo_id_" \o level, <<"geo_name_" \o level>>)
    IN  RenameCols(t, [c \in Range(t.cols) |-> Name(c)])

\* AllowedLevels with a level that has no crosswalk
AllowedLevelsWide == {"tract", "nta", "puma", "county"}

\* allowed = ["tract", "nta", "puma"]
AllowedLevels == {"tract", "nta", "puma"}

(***************************************************************************)
(* SummaryLODES.                                                           *)
(***************************************************************************)
\* the count columns of an OD file, in the order of the file; they are the
\* columns of the file whose name starts with "S"
ODCounts ==
    <<"S000", "SA01", "SA02", "SA03", "SE01", "SE02", "SE03", "SI01", "SI02", "SI03">>

ODCols == <<"w_geocode", "h_geocode">> \o ODCounts \o <<"createdate">>

\* col.startswith("S"), on the column names of the OD data
StartsWithS(c) == c \in Range(ODCounts)

\* the counts of an OD record with n jobs: the workers of one home block
\* fall in one age band, one wage band and one industry group
Band(h) == IF h = B11 THEN "1" ELSE IF h = B21 THEN "2" ELSE "3"

ODRecord(w, h, n) ==
    [c \in Range(ODCols) |->
        IF c = "w_geocode" THEN w
        ELSE IF c = "h_geocode" THEN h
        ELSE IF c = "createdate" THEN 20190826
        ELSE IF c \in {"S000", "SA0" \o Band(h), "SE0" \o Band(h), "SI0" \o Band(h)} THEN n
        ELSE 0]

\* the (work block, home block) pairs of the main file (home in the state)
\* and of the auxiliary file (home in another state)
MainPairs == {<<B11, B11>>, <<B12, B11>>, <<B21, B11>>, <<B11, B21>>, <<B21, B21>>}
AuxPairs == {<<B11, BX>>, <<B21, BX>>}

\* an OD file: one record per pair, in ascending order, n jobs in each
ODTable(P, n) ==
    LET ps == SortedSeq(P, {p \in P \X P : LexLess(p[1][1] \o p[1][2], p[2][1] \o p[2][2])})
    IN  Table(ODCols, [i \in DOMAIN ps |-> ODRecord(ps[i][1], ps[i][2], n)])

\* the main and the auxiliary OD file of a year and job type: MaxODRows
\* records in all, at least one job in a record
ODFiles ==
    {[main |-> ODTable(P \cap MainPairs, n), aux |-> ODTable(P \cap AuxPairs, m)] :
        P \in SubsetsUpTo(MainPairs \cup AuxPairs, MaxODRows), n \in 1..MaxCount, m \in 1..MaxCount}

\* pa_xwalk.csv.gz: the tract of each block it lists
XwalkFile(S) ==
    LET bs == SortedSeq(S, LexOrder(S))
    IN  Table(<<"tabblk2010", "trct">>,
              [i \in DOMAIN bs |-> [tabblk2010 |-> bs[i], trct |-> Slice(bs[i], 11)]])

XwalkFiles == {XwalkFile(Blocks), XwalkFile(Blocks \ {B21})}

\* astype(str) on column c
ColAsStr(t, c) ==
    [cols |-> t.cols,
     index |-> t.index,
     rows |-> [i \in DOMAIN t.rows |-> [t.rows[i] EXCEPT ![c] = AsTypeStr(t.rows[i][c])]]]

\* allowed_kinds
AllowedKinds == [work |-> "w_geocode", home |-> "h_geocode"]

\* the validation of SummaryLODES.download, in the order of the code
SL_Validate(year, kind, job_type) ==
    IF year \notin YEARS THEN "ValueError: year"
    ELSE IF job_type \notin DOMAIN AllowedJobTypes THEN "ValueError: job_type"
    ELSE IF kind \notin DOMAIN AllowedKinds THEN "ValueError: kind"
    ELSE "ok"

\* pd.concat(data): the rows of the frames, one after the other, each with
\* the index label it had
Concat(a, b) == [cols |-> a.cols, index |-> a.index \o b.index, rows |-> a.rows \o b.rows]

\* lines 65-81: the OD data (the auxiliary file only for work tracts), the
\* geocodes as strings, is_resident true where the home tract is in the
\* tract reference
SL_Data(kindcol, od, tracts) ==
    LET d == ColAsStr(ColAsStr(IF kindcol = "w_geocode" THEN Concat(od.main, od.aux)
                                ELSE od.main, "h_geocode"), "w_geocode")
        ids == {tracts.rows[i].geo_id : i \in DOMAIN tracts.rows}
    IN  [cols |-> Append(d.cols, "is_resident"),
         index |-> d.index,
         rows |-> [i \in DOMAIN d.rows |->
                     [c \in Range(d.cols) \cup {"is_resident"} |->
                         IF c = "is_resident" THEN Slice(d.rows[i].h_geocode, 11) \in ids
                         ELSE d.rows[i][c]]]]

\* cols = [col for col in data.columns if col.startswith("S")]
SL_Cols(data) == SelectSeq(data.cols, StartsWithS)

\* lines 85-91: sum by block and resident class, attach the tract of the
\* block from the crosswalk
SL_N(kindcol, data, xwalk) ==
    ColAsStr(Merge(GroupBySum(data, <<kindcol, "is_resident">>, SL_Cols(data)),
                   ColAsStr(xwalk, "tabblk2010"), kindcol, "tabblk2010", "left"),
             "trct")

\* lines 94-99: sum by tract and resident class, join with the reference
SL_Joined(kindcol, data, xwalk, tracts) ==
    Merge(tracts,
          GroupBySum(SL_N(kindcol, data, xwalk), <<"trct", "is_resident">>, SL_Cols(data)),
          "geo_id", "trct", "inner")

\* SL_Tags with both classes whatever the kind
SL_TagsBoth(kindcol) == <<"resident", "nonresident">>

\* lines 103-107: the resident classes of the pivot
SL_Tags(kindcol) == IF kindcol = "w_geocode" THEN <<"resident", "nonresident">> ELSE <<"resident">>

\* df.drop_duplicates(subset=[col]).reset_index(drop=True)
DropDuplicates(t, col) ==
    LET first == {i \in DOMAIN t.rows :
                     \A j \in 1..(i - 1) : t.rows[j][col] # t.rows[i][col]}
        keep == SortedSeq(first, NatOrder(first))
    IN  Table(t.cols, [n \in DOMAIN keep |-> t.rows[keep[n]]])

\* filter(regex="geo\w+", axis=1), on the column names of the joined table
SL_GeoCols(t) == SelectSeq(t.cols, LAMBDA c : c \in {"geo_id", "geo_name", "geometry"})

\* lines 110-114: one row per census tract
SL_Out0(joined) == DropDuplicates(Select(joined, SL_GeoCols(joined)), "geo_id")

\* the renaming of lines 120-131
SL_Suffix(c) ==
    CASE c = "S000" -> "total"
      [] c = "SA01" -> "29_or_younger"
      [] c = "SA02" -> "30_to_54"
      [] c = "SA03" -> "55_or_older"
      [] c = "SE01" -> "1250_or_less"
      [] c = "SE02" -> "1251_to_3333"
      [] c = "SE03" -> "3334_or_more"
      [] c = "SI01" -> "goods_producing"
      [] c = "SI02" -> "trade_transpo_utilities"
      [] c = "SI03" -> "all_other_industries"
      [] OTHER -> c

SL_Renamed(tag, c) == IF c \in Range(ODCounts) THEN tag \o "_" \o SL_Suffix(c) ELSE c

\* data.query("is_resident == True") / ("is_resident == False")
Query(t, flag) ==
    LET hit == {i \in DOMAIN t.rows : t.rows[i].is_resident = flag}
        keep == SortedSeq(hit, NatOrder(hit))
    IN  [cols |-> t.cols,
         index |-> [n \in DOMAIN keep |-> t.index[keep[n]]],
         rows |-> [n \in DOMAIN keep |-> t.rows[keep[n]]]]

\* lines 118-135, for one tag: merge the columns of the class into out
SL_MergeTag(out, joined, cols, tag) ==
    LET t == Select(Query(joined, tag = "resident"), <<"geo_id">> \o cols)
    IN  Merge(out,
              RenameCols(t, [c \in Range(t.cols) |-> SL_Renamed(tag, c)]),
              "geo_id", "geo_id", "inner")

RECURSIVE SL_Pivot(_, _, _, _)
SL_Pivot(out, joined, cols, tags) ==
    IF tags = <<>> THEN out
    ELSE SL_Pivot(SL_MergeTag(out, joined, cols, Head(tags)), joined, cols, Tail(tags))

\* the groups of lines 140-150
Groups ==
    <<"29_or_younger", "30_to_54", "55_or_older", "1250_or_less", "1251_to_3333",
      "3334_or_more", "goods_producing", "trade_transpo_utilities", "all_other_industries">>

\* AddSum with the first column taken twice (the list of the two columns
\* built from one tag)
AddSumOneTag(t, name, a, b) ==
    [cols |-> Append(t.cols, name),
     index |-> t.index,
     rows |-> [i \in DOMAIN t.rows |->
                 [c \in Range(t.cols) \cup {name} |->
                     IF c = name THEN SumCol(<<[v |-> t.rows[i][a]], [v |-> t.rows[i][a]]>>, "v")
                     ELSE t.rows[i][c]]]]

\* out[name] = out[[a, b]].sum(axis=1): a new last column, the sum of two
\* columns of the row (missing values skipped)
AddSum(t, name, a, b) ==
    [cols |-> Append(t.cols, name),
     index |-> t.index,
     rows |-> [i \in DOMAIN t.rows |->
                 [c \in Range(t.cols) \cup {name} |->
                     IF c = name THEN SumCol(<<[v |-> t.rows[i][a]], [v |-> t.rows[i][b]]>>, "v")
                     ELSE t.rows[i][c]]]]

RECURSIVE SL_GroupTotals(_, _)
SL_GroupTotals(t, gs) ==
    IF gs = <<>> THEN t
    ELSE SL_GroupTotals(AddSum(t, "total_" \o Head(gs),
                               "resident_" \o Head(gs), "nonresident_" \o Head(gs)),
                        Tail(gs))

\* lines 137-154: the totals, for work tracts
SL_Totals(kindcol, out) ==
    IF kindcol = "w_geocode"
    THEN SL_GroupTotals(AddSum(out, "total", "resident_total", "nonresident_total"), Groups)
    ELSE out

\* lines 101-154: the pivot and the totals
SL_Reshape(kindcol, joined, cols) ==
    SL_Totals(kindcol, SL_Pivot(SL_Out0(joined), joined, cols, SL_Tags(kindcol)))

\* SummaryLODES.download as one function of its arguments and of the files
\* it reads
SL_Download(year, kind, job_type, od, xwalk) ==
    LET v == SL_Validate(year, kind, job_type)
        kindcol == AllowedKinds[kind]
        tracts == TractsAsStr(CensusTracts(year))
        data == SL_Data(kindcol, od, tracts)
    IN  IF v # "ok" THEN [err |-> v, table |-> NoTable]
        ELSE [err |-> "none",
              table |-> SortReset(SL_Reshape(kindcol,
                                             SL_Joined(kindcol, data, xwalk, tracts),
                                             SL_Cols(data)))]

\* aggregate_tracts(data, level, "count"): the tracts of the crosswalk of the
\* level, their counts summed by unit
AggregateTracts(xwalk, data, level) == LF_Aggregate(xwalk, data, level)

(***************************************************************************)
(* The calls.                                                              *)
(***************************************************************************)
YearInputs == {2001, 2010, 2017, 2018}
JobTypeInputs == {"all", "private_primary", "seasonal"}
KeyInputs == {"wac", "rac", "od"}
KindInputs == {"work", "home", "both"}
LevelInputs == {"tract", "nta", "puma", "county"}

\* LongformLODES.download(key, year, job_type), of either revision
LongDownloadCalls ==
    [pipeline : {"longform"}, module : {"economic", "econ"}, entry : {"download"},
     key : KeyInputs, kind : {"-"}, year : YearInputs, job_type : JobTypeInputs,
     level : {"-"}]

\* LongformLODES.get(fresh, year, level) on WorkLongformLODES (wac) or
\* HomeLongformLODES (rac); download is called with its default job_type
LongGetCalls ==
    [pipeline : {"longform"}, module : {"economic"}, entry : {"get"},
     key : {"wac", "rac"}, kind : {"-"}, year : YearInputs, job_type : {"all"},
     level : LevelInputs]

\* SummaryLODES.download(year, kind, job_type)
SumDownloadCalls ==
    [pipeline : {"summary"}, module : {"economic"}, entry : {"download"},
     key : {"-"}, kind : KindInputs, year : YearInputs, job_type : JobTypeInputs,
     level : {"-"}]

\* SummaryLODES.get(fresh, kind, year, level, job_type)
SumGetCalls ==
    [pipeline : {"summary"}, module : {"economic"}, entry : {"get"},
     key : {"-"}, kind : {"work", "home"}, year : {2017, 2018}, job_type : {"all"},
     level : LevelInputs]

Calls == LongDownloadCalls \cup LongGetCalls \cup SumDownloadCalls \cup SumGetCalls

Init ==
    /\ call \in Calls
    /\ pc = "call"
    /\ events = <<>>
    /\ src = EmptySrc
    /\ work = NoTable
    /\ ret = NoTable
    /\ err = "none"

Raise(e) ==
    /\ pc' = "raised"
    /\ err' = e
    /\ src' = EmptySrc
    /\ work' = NoTable
    /\ UNCHANGED <<call, events, ret>>

(***************************************************************************)
(* LongformLODES.download, step by step.                                   *)
(***************************************************************************)
\* lines 89-106: the three validations
LongValidate ==
    /\ pc = "call"
    /\ call.pipeline = "longform" /\ call.entry = "download"
    /\ LET v == LF_Validate(call.key, call.year, call.job_type)
       IN  IF v = "ok"
           THEN /\ pc' = "validated"
                /\ UNCHANGED <<call, events, src, work, ret, err>>
           ELSE Raise(v)

\* lines 108-119: read the source file, fetch the tract reference
LongLoad ==
    /\ pc = "validated"
    /\ call.pipeline = "longform"
    /\ \E file \in LongFiles(call.key) :
        /\ src' = [EmptySrc EXCEPT
                      !.data = LF_Data(file),
                      !.tracts = TractsAsStr(CensusTracts(LF_TractYear(call.module, call.year)))]
        /\ events' = events \o
              <<Event("read_csv", LF_Filename(call.key, call.year, call.job_type)),
                Event("CensusTracts.get", <<LF_TractYear(call.module, call.year)>>)>>
    /\ pc' = "loaded"
    /\ UNCHANGED <<call, work, ret, err>>

\* lines 121-126: group by tract, join with the reference, rename
LongJoin ==
    /\ pc = "loaded"
    /\ call.pipeline = "longform"
    /\ work' = LF_Join(call.module, src.data, src.tracts)
    /\ src' = EmptySrc
    /\ pc' = "joined"
    /\ UNCHANGED <<call, events, ret, err>>

\* lines 128-129: remove the columns that are all zeros
LongPrune ==
    /\ pc = "joined"
    /\ call.pipeline = "longform"
    /\ work' = ZeroPrune(work)
    /\ pc' = "pruned"
    /\ UNCHANGED <<call, events, src, ret, err>>

\* line 131: sort by geo_id, reset the index, return
LongReturn ==
    /\ pc = "pruned"
    /\ call.pipeline = "longform"
    /\ IF CanSort(work)
       THEN /\ ret' = SortReset(work)
            /\ work' = NoTable
            /\ pc' = "returned"
            /\ UNCHANGED <<call, events, src, err>>
       ELSE Raise("KeyError: geo_id")

(***************************************************************************)
(* LongformLODES.get, step by step.                                        *)
(***************************************************************************)
\* lines 148-150: the validation of the level
LongGetValidate ==
    /\ pc = "call"
    /\ call.pipeline = "longform" /\ call.entry = "get"
    /\ IF call.level \in AllowedLevels
       THEN /\ pc' = "level_ok"
            /\ UNCHANGED <<call, events, src, work, ret, err>>
       ELSE Raise("ValueError: level")

\* line 153: super().get(fresh=fresh, year=year), which gives the table that
\* download gives for the year (computed now or stored earlier), or raises
\* what download raises
LongGetFetch ==
    /\ pc = "level_ok"
    /\ call.pipeline = "longform"
    /\ \E file \in LongFiles(call.key) :
        LET r == LF_Download(call.module, call.key, call.year, call.job_type, file)
        IN  /\ events' = Append(events, Event("Dataset.get", <<call.year>>))
            /\ IF r.err = "none"
               THEN /\ work' = r.table
                    /\ pc' = "fetched"
                    /\ UNCHANGED <<call, src, ret, err>>
               ELSE /\ pc' = "raised"
                    /\ err' = r.err
                    /\ UNCHANGED <<call, src, work, ret>>

\* lines 155-182 with level = tract: the tract-level table is returned
LongGetTract ==
    /\ pc = "fetched"
    /\ call.pipeline = "longform"
    /\ call.level = "tract"
    /\ ret' = work
    /\ work' = NoTable
    /\ pc' = "returned"
    /\ UNCHANGED <<call, events, src, err>>

\* lines 155-182 with level = nta or puma: fetch the crosswalk, merge,
\* aggregate, rename, return
LongGetAggregate ==
    /\ pc = "fetched"
    /\ call.pipeline = "longform"
    /\ call.level # "tract"
    /\ \E xwalk \in Crosswalks(call.level) :
        /\ ret' = LF_Aggregate(xwalk, work, call.level)
        /\ src' = [EmptySrc EXCEPT !.xwalk = xwalk, !.data = work]
    /\ events' = events \o
          <<Event("crosswalk.tracts_to_" \o call.level, <<call.year>>),
            Event("aggregate_count_data", <<call.level>>)>>
    /\ work' = NoTable
    /\ pc' = "returned"
    /\ UNCHANGED <<call, err>>

(***************************************************************************)
(* SummaryLODES.download, step by step.                                    *)
(***************************************************************************)
\* lines 35-56: the three validations
SumValidate ==
    /\ pc = "call"
    /\ call.pipeline = "summary" /\ call.entry = "download"
    /\ LET v == SL_Validate(call.year, call.kind, call.job_type)
       IN  IF v = "ok"
           THEN /\ pc' = "validated"
                /\ UNCHANGED <<call, events, src, work, ret, err>>
           ELSE Raise(v)

\* lines 58-81: read the crosswalk, the main OD file and, for work tracts,
\* the auxiliary OD file; fetch the tract reference; classify the records
SumLoad ==
    /\ pc = "validated"
    /\ call.pipeline = "summary"
    /\ \E od \in ODFiles, xwalk \in XwalkFiles :
        LET tracts == TractsAsStr(CensusTracts(call.year))
            data == SL_Data(AllowedKinds[call.kind], od, tracts)
        IN  src' = [data |-> data, tracts |-> tracts, xwalk |-> xwalk, cols |-> SL_Cols(data)]
    /\ events' = events \o
          <<Event("read_csv", <<"xwalk">>),
            Event("read_csv", <<"od_main", AllowedJobTypes[call.job_type], call.year>>)>> \o
          (IF AllowedKinds[call.kind] = "w_geocode"
           THEN <<Event("read_csv", <<"od_aux", AllowedJobTypes[call.job_type], call.year>>)>>
           ELSE <<>>) \o
          <<Event("CensusTracts.get", <<call.year>>)>>
    /\ pc' = "loaded"
    /\ UNCHANGED <<call, work, ret, err>>

\* lines 83-114: sum by block, by tract, join with the reference (the table
\* the code names data from here on), start out with one row per tract
SumJoin ==
    /\ pc = "loaded"
    /\ call.pipeline = "summary"
    /\ LET joined == SL_Joined(AllowedKinds[call.kind], src.data, src.xwalk, src.tracts)
       IN  /\ src' = [EmptySrc EXCEPT !.data = joined, !.cols = src.cols]
           /\ work' = SL_Out0(joined)
    /\ pc' = "joined"
    /\ UNCHANGED <<call, events, ret, err>>

\* lines 116-154: merge the columns of each resident class, add the totals
SumPivot ==
    /\ pc = "joined"
    /\ call.pipeline = "summary"
    /\ work' = SL_Totals(AllowedKinds[call.kind],
                         SL_Pivot(work, src.data, src.cols, SL_Tags(AllowedKinds[call.kind])))
    /\ pc' = "pivoted"
    /\ UNCHANGED <<call, events, src, ret, err>>

\* line 156: sort by geo_id, reset the index, return
SumReturn ==
    /\ pc = "pivoted"
    /\ call.pipeline = "summary"
    /\ ret' = SortReset(work)
    /\ work' = NoTable
    /\ src' = EmptySrc
    /\ pc' = "returned"
    /\ UNCHANGED <<call, events, err>>

(***************************************************************************)
(* SummaryLODES.get, step by step.                                         *)
(***************************************************************************)
\* lines 180-183: the validation of the level
SumGetValidate ==
    /\ pc = "call"
    /\ call.pipeline = "summary" /\ call.entry = "get"
    /\ IF call.level \in AllowedLevels
       THEN /\ pc' = "level_ok"
            /\ UNCHANGED <<call, events, src, work, ret, err>>
       ELSE Raise("ValueError: level")

\* line 186: super().get(fresh=fresh, kind=kind, year=year, job_type=job_type)
SumGetFetch ==
    /\ pc = "level_ok"
    /\ call.pipeline = "summary"
    /\ \E od \in ODFiles, xwalk \in XwalkFiles :
        LET r == SL_Download(call.year, call.kind, call.job_type, od, xwalk)
        IN  /\ events' = Append(events, Event("Dataset.get", <<call.year>>))
            /\ IF r.err = "none"
               THEN /\ work' = r.table
                    /\ pc' = "fetched"
                    /\ UNCHANGED <<call, src, ret, err>>
               ELSE /\ pc' = "raised"
                    /\ err' = r.err
                    /\ UNCHANGED <<call, src, work, ret>>

\* lines 188-193 with level = tract
SumGetTract ==
    /\ pc = "fetched"
    /\ call.pipeline = "summary"
    /\ call.level = "tract"
    /\ ret' = work
    /\ work' = NoTable
    /\ pc' = "returned"
    /\ UNCHANGED <<call, events, src, err>>

\* lines 188-193 with level = nta or puma: aggregate_tracts
SumGetAggregate ==
    /\ pc = "fetched"
    /\ call.pipeline = "summary"
    /\ call.level # "tract"
    /\ \E xwalk \in Crosswalks(call.level) :
        /\ ret' = AggregateTracts(xwalk, work, call.level)
        /\ src' = [EmptySrc EXCEPT !.xwalk = xwalk, !.data = work]
    /\ events' = Append(events, Event("aggregate_tracts", <<call.level>>))
    /\ work' = NoTable
    /\ pc' = "returned"
    /\ UNCHANGED <<call, err>>

Next ==
    \/ LongGetValidate
    \/ LongGetFetch
    \/ LongGetTract
    \/ LongGetAggregate
    \/ LongValidate
    \/ LongLoad
    \/ LongJoin
    \/ LongPrune
    \/ LongReturn
    \/ SumValidate
    \/ SumLoad
    \/ SumJoin
    \/ SumPivot
    \/ SumReturn
    \/ SumGetValidate
    \/ SumGetFetch
    \/ SumGetTract
    \/ SumGetAggregate

Spec == Init /\ [][Next]_vars

(***************************************************************************)
(* The properties.                                                         *)
(***************************************************************************)
IsDownload(p) == call.pipeline = p /\ call.entry = "download"

IsGet(p) == call.pipeline = p /\ call.entry = "get"

GeoIds(t) == {t.rows[i].geo_id : i \in DOMAIN t.rows}

\* the arguments of the call are all supported
ValidArgs ==
    /\ call.year >= 2002 /\ call.year <= 2017
    /\ call.job_type \in {"all", "primary", "private", "private_primary"}
    /\ call.pipeline = "longform" => call.key \in {"wac", "rac"}
    /\ call.pipeline = "summary" => call.kind \in {"work", "home"}

\* C1: in every row of the table SummaryLODES.download returns for work
\* tracts, total is resident_total + nonresident_total and, for each of the
\* nine groups g, total_g is resident_g + nonresident_g.
C1_WorkTotals ==
    (pc = "returned" /\ IsDownload("summary") /\ call.kind = "work") =>
        \A i \in DOMAIN ret.rows :
            /\ ret.rows[i]["total"] =
                  ret.rows[i]["resident_total"] + ret.rows[i]["nonresident_total"]
            /\ \A k \in DOMAIN Groups :
                  ret.rows[i]["total_" \o Groups[k]] =
                     ret.rows[i]["resident_" \o Groups[k]]
                     + ret.rows[i]["nonresident_" \o Groups[k]]

\* a work-tract table with a row of two resident jobs and one other job
C1_Witness ==
    /\ pc = "returned" /\ IsDownload("summary") /\ call.kind = "work"
    /\ \E i \in DOMAIN ret.rows :
        /\ ret.rows[i]["resident_total"] = 2
        /\ ret.rows[i]["nonresident_total"] = 1
        /\ ret.rows[i]["total"] = 3

\* C2: a download call of either pipeline with an unsupported year, key,
\* kind or job type reads nothing and returns no table: it ends raising,
\* with no read or fetch before.
C2_FailFast ==
    (call.entry = "download" /\ ~ValidArgs) =>
        /\ events = <<>>
        /\ ret = NoTable
        /\ pc \in {"call", "raised"}

\* job_type "seasonal", the other arguments valid: raised, nothing read
C2_Witness ==
    /\ call.entry = "download" /\ call.job_type = "seasonal"
    /\ call.year = 2017 /\ call.key \in {"wac", "-"} /\ call.kind \in {"work", "-"}
    /\ pc = "raised" /\ err = "ValueError: job_type" /\ events = <<>>

\* C3: every geo_id of the table LongformLODES.download returns has 11
\* characters and is a tract of the reference of the requested year.
C3_GeoIdInReference ==
    (pc = "returned" /\ IsDownload("longform")) =>
        \A i \in DOMAIN ret.rows :
            /\ Len(ret.rows[i].geo_id) = 11
            /\ ret.rows[i].geo_id \in GeoIds(CensusTracts(call.year))

IsSorted(t) ==
    \A i \in 1..(Len(t.rows) - 1) : ~LexLess(t.rows[i + 1].geo_id, t.rows[i].geo_id)

HasDenseIndex(t) == t.index = [i \in 1..Len(t.rows) |-> i - 1]

MappedTracts == {src.xwalk.rows[i].geo_id_tract : i \in DOMAIN src.xwalk.rows}

\* the count columns of the tract-level table
CountCols(t) == {c \in Range(t.cols) : c \notin ObjectCols}

\* C5: after LongformLODES.get at level nta or puma, every count column of
\* the tract-level table is a column of the result, and its sum over the
\* units equals its sum over the tracts the crosswalk maps to a unit.
C5_MassConserved ==
    (pc = "returned" /\ IsGet("longform") /\ call.level # "tract") =>
        \A c \in CountCols(src.data) :
            /\ c \in Range(ret.cols)
            /\ SumCol(ret.rows, c) =
                  SumCol(SelectSeq(src.data.rows, LAMBDA r : r.geo_id \in MappedTracts), c)

\* two tracts with one job each, mapped to one unit: one row with 2 jobs
C5_Witness ==
    /\ pc = "returned" /\ IsGet("longform") /\ call.level = "nta"
    /\ Len(src.data.rows) = 2
    /\ "total_jobs" \in Range(src.data.cols)
    /\ src.data.rows[1].total_jobs = 1 /\ src.data.rows[2].total_jobs = 1
    /\ Len(src.xwalk.rows) = 2
    /\ Len(ret.rows) = 1
    /\ ret.rows[1].geo_id = N1 /\ ret.rows[1].total_jobs = 2

\* the place of a name in the catalog
CatalogIndex(module, name) ==
    CHOOSE k \in DOMAIN RAW_FIELDS(module) : RAW_FIELDS(module)[k][2] = name

\* C6: the count columns of the table of LongformLODES.download come in the
\* order of the catalog, whatever the order of the columns of the file.
C6_CatalogOrder ==
    (pc = "joined" /\ IsDownload("longform")) =>
        \A i, j \in DOMAIN work.cols :
            (/\ i < j
             /\ work.cols[i] \in FieldNames(call.module)
             /\ work.cols[j] \in FieldNames(call.module)) =>
                CatalogIndex(call.module, work.cols[i]) < CatalogIndex(call.module, work.cols[j])

\* the names the code forms for the counts of a resident class
TagNames(tag) == {tag \o "_" \o g : g \in Range(Groups) \cup {"total"}}

\* the names of the combined totals
TotalNames == {"total"} \cup {"total_" \o g : g \in Range(Groups)}

\* C7: the table SummaryLODES.download returns for home tracts has the geo
\* columns and the resident_* counts and nothing else (no nonresident_*
\* column, no total column), and the auxiliary OD file is never read.
C7_HomeColumns ==
    (IsDownload("summary") /\ call.kind = "home") =>
        /\ \A k \in DOMAIN events :
              ~(events[k].op = "read_csv" /\ events[k].arg[1] = "od_aux")
        /\ pc = "returned" =>
              /\ Range(ret.cols) \cap (TagNames("nonresident") \cup TotalNames) = {}
              /\ Range(ret.cols) = {"geo_id", "geo_name", "geometry"} \cup TagNames("resident")

\* a home-tract table with a row, after the main OD file was read
C7_Witness ==
    /\ pc = "returned" /\ IsDownload("summary") /\ call.kind = "home"
    /\ Len(ret.rows) >= 1
    /\ \E k \in DOMAIN events : events[k].op = "read_csv" /\ events[k].arg[1] = "od_main"

\* the collaborator calls made so far, by name
EventOps == [k \in DOMAIN events |-> events[k].op]

\* the collaborator calls of a complete get, in order
GetOps ==
    IF call.level = "tract" THEN <<"Dataset.get">>
    ELSE IF call.pipeline = "longform"
    THEN <<"Dataset.get", "crosswalk.tracts_to_" \o call.level, "aggregate_count_data">>
    ELSE <<"Dataset.get", "aggregate_tracts">>

IsPrefix(s, t) == Len(s) <= Len(t) /\ \A i \in DOMAIN s : s[i] = t[i]

\* C8: get with a level other than tract, nta, puma raises before the
\* tract-level table is fetched and before any crosswalk or aggregation;
\* with a valid level the level is validated first, then the tract-level
\* table is fetched, then (for nta and puma only) the table is aggregated.
C8_GetOrder ==
    call.entry = "get" =>
        /\ call.level \notin {"tract", "nta", "puma"} =>
              events = <<>> /\ ret = NoTable /\ pc \in {"call", "raised"}
        /\ call.level \in {"tract", "nta", "puma"} =>
              /\ IsPrefix(EventOps, GetOps)
              /\ pc = "call" => events = <<>>
              /\ pc = "returned" => EventOps = GetOps

\* a get at level puma that fetched, then aggregated
C8_Witness ==
    /\ pc = "returned" /\ IsGet("longform") /\ call.level = "puma"
    /\ Len(events) = 3
    /\ Len(ret.rows) >= 1

\* C9: pruning the pruned table of LongformLODES.download again changes
\* nothing: the same columns, index and rows.
C9_PruneIdempotent ==
    (pc = "pruned" /\ IsDownload("longform")) => ZeroPrune(work) = work

\* a pruned table from which the all-zero age column was removed
C9_Witness ==
    /\ pc = "pruned" /\ IsDownload("longform")
    /\ Len(work.rows) >= 1
    /\ "total_jobs" \in Range(work.cols)
    /\ "age_29_or_younger" \notin Range(work.cols)

\* C10: the rows of the table of SummaryLODES.download are the tracts of the
\* join with the tract reference, one row each: the pivot removes no tract.
C10_RowSet ==
    (pc = "pivoted" /\ IsDownload("summary")) =>
        /\ GeoIds(work) = GeoIds(src.data)
        /\ Len(work.rows) = Cardinality(GeoIds(src.data))

\* C11: in a valid call of LongformLODES.download, whatever the source file
\* and the tract reference (also when no tract of the file is in the
\* reference, so that the joined table has no rows), the pruned table still
\* has the geo_id column and the call does not fail: it goes on to return a
\* table.
C11_PruneKeepsGeoId ==
    (IsDownload("longform") /\ ValidArgs) =>
        /\ pc = "pruned" => "geo_id" \in Range(work.cols)
        /\ pc # "raised"

=============================================================================
